---- MODULE Spec2Model ----
(***************************************************************************)
(* Dual-motor PID speed controller (ESP32_Dual_Motor_PID.ino).             *)
(*                                                                         *)
(* Numbers.  The sketch computes in `float'.  Here every float field is an *)
(* exact fixed-point integer in units of 1/Q (Q = 250, the smallest scale  *)
(* at which Kp = 1.0, Ki = 0.40 and Kd = 0.004 are integers).  Targets are *)
(* integers and speeds are multiples of 1/Ts = 20, so every product the    *)
(* controller forms is exact in these units; float rounding is not         *)
(* modelled.                                                               *)
(*                                                                         *)
(* Control flow.  loop() is cut into labelled steps (pc); the encoder      *)
(* interrupt handlers may run between any two steps while interrupts are   *)
(* enabled.                                                                *)
(***************************************************************************)
EXTENDS Integers, Sequences, FiniteSets, TLC

\* ------------------------------------------------------------------ bounds
MaxEdges == 2
MaxUptime == 99

\* --------------------------------------------------------------- constants
Q == 250
PWM_BITS == 10
PWM_MAX == (2 ^ PWM_BITS) - 1
SAMPLE_MS == 50
MIN_DUTY_START == 180
DUTY_MIN == 0
DUTY_MAX == PWM_MAX
Kp == 250
Ki == 100
Kd == 1
I_MAX == 300 * Q
CMD_CLAMP == 2000
SetupDelayMs == 500
Limb == 65536

Motors == {1, 2}

VARIABLES
  pc,          \* position of loop(): <<label, motor>>
  M,           \* M[1], M[2]: the Motor structs M1, M2
  out,         \* per motor: levels written to inA, inB and the LEDC duty
  encCount,    \* encCount1, encCount2
  encA, encB,  \* encoder phase levels as digitalRead sees them
  pend,        \* per motor: latched, not yet serviced CHANGE interrupts
  intEnabled,  \* FALSE between noInterrupts() and interrupts()
  nowCnt,      \* local of updateSpeed
  clock,       \* the 32-bit millis() counter, <<high 16 bits, low 16 bits>>
  lastMs,      \* reference timestamp, same representation
  io,          \* input consumed and reply produced by the last step of loop()
  uptime,      \* history: ms elapsed since the initial state
  sinceTick,   \* history: true ms elapsed since lastMs was last assigned
  tickLog,     \* history: steps of the current pass of loop()
  shaft,       \* environment: quadrature step index of each encoder shaft
  edges,       \* environment: number of encoder edges so far
  past         \* history: what the counters held at earlier times

vars == <<pc, M, out, encCount, encA, encB, pend, intEnabled, nowCnt,
          clock, lastMs, io, uptime, sinceTick, tickLog, shaft,
          edges, past>>

\* ------------------------------------------------------------ small helpers
Abs(x) == IF x < 0 THEN -x ELSE x

\* int -> float conversion, (float)n
ToFloat(n) == n * Q

\* float * float for a gain g and a value x, both in units of 1/Q
MulQ(g, x) == (g * x) \div Q

\* uint32_t arithmetic on <<high, low>> 16-bit limbs (wraps modulo 2^32)
U32(n) == <<(n \div Limb) % Limb, n % Limb>>
U32Add(a, n) ==
  LET lo == a[2] + n
  IN  <<(a[1] + lo \div Limb) % Limb, lo % Limb>>
\* variant: a difference that does not wrap (0 when a is below b)
U32Sub_NoWrap(a, b) ==
  LET borrow == IF a[2] < b[2] THEN 1 ELSE 0
  IN  IF a[1] < b[1] \/ (a[1] = b[1] /\ a[2] < b[2])
        THEN <<0, 0>>
        ELSE <<(a[1] - b[1] - borrow) % Limb, (a[2] - b[2]) % Limb>>

U32Sub(a, b) ==
  LET borrow == IF a[2] < b[2] THEN 1 ELSE 0
  IN  <<(a[1] - b[1] - borrow) % Limb, (a[2] - b[2]) % Limb>>
\* v >= n for a small constant 0 <= n < 2^16
U32Geq(v, n) == v[1] > 0 \/ v[2] >= n

\* constrain(x, lo, hi) of Arduino.h
constrain(x, lo, hi) == IF x < lo THEN lo ELSE IF x > hi THEN hi ELSE x

\* ------------------------------------------------------------- text parsing
\* Text is a sequence of one-character strings.
Digits == {"0", "1", "2", "3", "4", "5", "6", "7", "8", "9"}
IsDigit(c) == c \in Digits
IsSpace(c) == c = " "
DigitVal(c) ==
  CASE c = "0" -> 0 [] c = "1" -> 1 [] c = "2" -> 2 [] c = "3" -> 3
    [] c = "4" -> 4 [] c = "5" -> 5 [] c = "6" -> 6 [] c = "7" -> 7
    [] c = "8" -> 8 [] c = "9" -> 9

ToLower(c) ==
  CASE c = "S" -> "s" [] c = "T" -> "t" [] c = "O" -> "o" [] c = "P" -> "p"
    [] OTHER -> c

RECURSIVE SkipSpace(_, _)
SkipSpace(s, i) ==
  IF i <= Len(s) /\ IsSpace(s[i]) THEN SkipSpace(s, i + 1) ELSE i

RECURSIVE ScanDigits(_, _, _)
\* accumulate decimal digits from position i; result <<value, next index>>
ScanDigits(s, i, acc) ==
  IF i <= Len(s) /\ IsDigit(s[i])
    THEN ScanDigits(s, i + 1, acc * 10 + DigitVal(s[i]))
    ELSE <<acc, i>>

\* One %d conversion (also the core of atol): skip white space, optional
\* sign, at least one digit.  Result [ok, val, next].
ScanInt(s, i) ==
  LET j == SkipSpace(s, i)
      neg == j <= Len(s) /\ s[j] = "-"
      k == IF j <= Len(s) /\ (s[j] = "-" \/ s[j] = "+") THEN j + 1 ELSE j
      d == ScanDigits(s, k, 0)
  IN  IF d[2] = k
        THEN [ok |-> FALSE, val |-> 0, next |-> i]
        ELSE [ok |-> TRUE, val |-> IF neg THEN -d[1] ELSE d[1], next |-> d[2]]

\* String::toInt(): atol of the buffer, 0 when no conversion is possible
toInt(s) == ScanInt(s, 1).val

\* String::trim()
RECURSIVE TrimRight(_)
TrimRight(s) ==
  IF Len(s) > 0 /\ IsSpace(s[Len(s)]) THEN TrimRight(SubSeq(s, 1, Len(s) - 1))
  ELSE s
trim(s) == LET j == SkipSpace(s, 1) IN TrimRight(SubSeq(s, j, Len(s)))

\* String::equalsIgnoreCase("stop")
equalsIgnoreCaseStop(s) ==
  /\ Len(s) = 4
  /\ [i \in 1..4 |-> ToLower(s[i])] = <<"s", "t", "o", "p">>

\* sscanf(s, "%d %d", &spL, &spR): number of conversions and the values
sscanf2(s) ==
  LET a == ScanInt(s, 1)
      b == IF a.ok THEN ScanInt(s, a.next) ELSE [ok |-> FALSE, val |-> 0, next |-> 1]
  IN  [n |-> (IF a.ok THEN 1 ELSE 0) + (IF b.ok THEN 1 ELSE 0),
       spL |-> a.val, spR |-> b.val]

\* ----------------------------------------------------------- command inputs
NoText == <<>>
Req(path, hasL, l, hasR, r) ==
  [path |-> path, hasL |-> hasL, l |-> l, hasR |-> hasR, r |-> r]
NoReq == Req("none", FALSE, NoText, FALSE, NoText)

Requests ==
  { Req("/cmd", TRUE, <<"2", "5", "0", "0">>, TRUE, <<"0">>),
    Req("/cmd", TRUE, <<"a", "b", "c">>, TRUE, <<"5">>),
    Req("/cmd", TRUE, <<"7", "4", "0">>, FALSE, NoText),
    Req("/cmd", FALSE, NoText, TRUE, <<"7", "4", "0">>),
    Req("/stop", FALSE, NoText, FALSE, NoText),
    Req("/telemetry", FALSE, NoText, FALSE, NoText) }

NoLine == <<"\n">>
SerialLines ==
  { <<"S", "t", "o", "p">>,
    <<"2", "5", "0", "0", " ", "0">>,
    <<"7", "4", "0", " ", "-", "7", "4", "0">>,
    <<"h", "i">> }

Reply(text, nums) == [text |-> text, nums |-> nums]
NoReply == Reply("", <<>>)

\* what one step of loop() consumed and answered
Io(src, req, line, status, reply) ==
  [src |-> src, req |-> req, line |-> line, status |-> status, reply |-> reply]
NoIo == Io("none", NoReq, NoLine, 0, NoReply)


\* printf("%.1f", x): x rounded to tenths, as a number of tenths
Fmt1(x) ==
  LET t == (20 * Abs(x) + Q) \div (2 * Q)
  IN  IF x < 0 THEN -t ELSE t

\* ------------------------------------------------------ order of loop()
\* loop(): server.handleClient(); handleSerial(); the pacing test; then
\* updateSpeed(M1); updateSpeed(M2); pidStep(M1); pidStep(M2), where
\* updateSpeed is cut at noInterrupts() / the read / interrupts() and pidStep
\* at its call of applyMotor.
\* variant: handleSerial() called after the speed updates
LoopBody_SerialInTick ==
  << <<"http", 0>>, <<"sched", 0>>,
     <<"us_ni", 1>>, <<"us_rd", 1>>, <<"us_ei", 1>>,
     <<"us_ni", 2>>, <<"us_rd", 2>>, <<"us_ei", 2>>,
     <<"serial", 0>>,
     <<"pid", 1>>, <<"apply", 1>>,
     <<"pid", 2>>, <<"apply", 2>> >>

\* variant: one channel's whole pipeline before the other's
LoopBody_ChannelByChannel ==
  << <<"http", 0>>, <<"serial", 0>>, <<"sched", 0>>,
     <<"us_ni", 1>>, <<"us_rd", 1>>, <<"us_ei", 1>>,
     <<"pid", 1>>, <<"apply", 1>>,
     <<"us_ni", 2>>, <<"us_rd", 2>>, <<"us_ei", 2>>,
     <<"pid", 2>>, <<"apply", 2>> >>

\* variant: handleSerial() called between the two PID steps
LoopBody_SerialBetweenPids ==
  << <<"http", 0>>, <<"sched", 0>>,
     <<"us_ni", 1>>, <<"us_rd", 1>>, <<"us_ei", 1>>,
     <<"us_ni", 2>>, <<"us_rd", 2>>, <<"us_ei", 2>>,
     <<"pid", 1>>, <<"apply", 1>>,
     <<"serial", 0>>,
     <<"pid", 2>>, <<"apply", 2>> >>

LoopBody ==
  << <<"http", 0>>, <<"serial", 0>>, <<"sched", 0>>,
     <<"us_ni", 1>>, <<"us_rd", 1>>, <<"us_ei", 1>>,
     <<"us_ni", 2>>, <<"us_rd", 2>>, <<"us_ei", 2>>,
     <<"pid", 1>>, <<"apply", 1>>,
     <<"pid", 2>>, <<"apply", 2>> >>

LoopStart == LoopBody[1]

\* the step after p in program order
After(p) ==
  LET i == CHOOSE k \in 1..Len(LoopBody) : LoopBody[k] = p
  IN  IF i = Len(LoopBody) THEN LoopStart ELSE LoopBody[i + 1]

\* a latched interrupt preempts the main loop as soon as interrupts are on
Preempted == intEnabled /\ \E m \in Motors : pend[m].A \/ pend[m].B

AtStep(label, m) == pc = <<label, m>> /\ ~Preempted

Advance ==
  /\ pc' = After(pc)
  /\ tickLog' = Append(tickLog, pc)

\* a step of loop() that consumes no input and sends no reply
Silent == io' = NoIo

\* ------------------------------------- history of counters and commands
\* cmd:         the <<left, right>> setpoints of the latest command that was
\*              acknowledged (<<0, 0>> for a stop; initially the targets
\*              setup() assigns)
\* sum[m]:      the sum of the count differences from which the ticks so far
\*              computed channel m's speed
\* mirror:      whether in every tick so far the PID steps of the two
\*              channels were given opposite targets and opposite speeds
\* track:       whether fresh / held / ago are recorded in this behaviour
\* fresh:       how many commands were acknowledged in the current pass of
\*              loop()
\* held[m]:     values counter m has held since the latest read of millis()
\* agoOk, ago:  whether the read of millis() before the latest one came
\*              exactly SAMPLE_MS earlier, and what the counters held from
\*              that earlier read up to the latest one
Past0 ==
  [cmd |-> <<0, 0>>, sum |-> [m \in Motors |-> 0], mirror |-> TRUE,
   fresh |-> 0,
   track |-> FALSE, held |-> [m \in Motors |-> {0}], agoOk |-> FALSE,
   ago |-> [m \in Motors |-> {}]]

\* loop() has served e: a command counts once it is acknowledged
Commanded(h, e) ==
  IF e.reply.text \in {"OK L=%d R=%d", "Serial CMD: L=%d R=%d"}
    THEN [h EXCEPT !.cmd = <<e.reply.nums[1], e.reply.nums[2]>>,
                   !.fresh = IF h.track THEN @ + 1 ELSE @]
  ELSE IF e.reply.text \in {"OK STOP", "STOP command received"}
    THEN [h EXCEPT !.cmd = <<0, 0>>,
                   !.fresh = IF h.track THEN @ + 1 ELSE @]
  ELSE h

\* a tick has computed channel m's speed: the count difference it used is
\* speed * Ts
Sampled(h, m, speed) ==
  [h EXCEPT !.sum[m] = @ + (speed * SAMPLE_MS) \div (1000 * Q)]

\* pidStep runs for channel m on the structs mot; the second PID step of a
\* tick completes the pair of inputs
Stepped(h, m, mot) ==
  IF m = 2
    THEN [h EXCEPT !.mirror = /\ @
                              /\ mot[2].target = -mot[1].target
                              /\ mot[2].speed = -mot[1].speed]
    ELSE h

\* loop() begins a pass
Entered(h) == [h EXCEPT !.fresh = 0]

\* counter m takes value c
Held(h, m, c) ==
  IF h.track THEN [h EXCEPT !.held[m] = @ \cup {c}] ELSE h

\* millis() is read dt ms after its previous read
Polled(h, dt) ==
  IF h.track
    THEN [h EXCEPT !.held = [m \in Motors |-> {encCount[m]}],
                   !.agoOk = (dt = SAMPLE_MS),
                   !.ago = IF dt = SAMPLE_MS THEN h.held
                           ELSE [m \in Motors |-> {}]]
    ELSE h

\* ------------------------------------------------------------ initial state
Motor0 ==
  [lastCount |-> 0, target |-> 0, speed |-> 0, err |-> 0, errPrev |-> 0,
   integ |-> 0, deriv |-> 0, u |-> 0, duty |-> 0, dir |-> 1]

Init ==
  /\ pc = LoopStart
  /\ M = [m \in Motors |-> Motor0]
  /\ out = [m \in Motors |-> [inA |-> FALSE, inB |-> FALSE, pwm |-> 0]]
  /\ encCount = [m \in Motors |-> 0]
  /\ encA = [m \in Motors |-> TRUE]       \* the encoders rest in some phase:
  /\ encB = [m \in Motors |-> m = 1]      \* (1,1) for motor 1, (1,0) for motor 2
  /\ pend = [m \in Motors |-> [A |-> FALSE, B |-> FALSE]]
  /\ intEnabled = TRUE
  /\ nowCnt = 0
  /\ clock = U32(SetupDelayMs)
  /\ lastMs = U32(0)
  /\ io = NoIo
  /\ uptime = 0
  /\ sinceTick = SetupDelayMs
  /\ tickLog = <<>>
  /\ shaft = [m \in Motors |-> 0]
  /\ edges = 0
  /\ past = Past0

\* The state in which loop() starts its second pass when the first pass met
\* no request, no serial line and no encoder edge and read millis()
\* SAMPLE_MS after setup(): the first tick has run with both channels at
\* rest.  History restarts here, with the counter intervals recorded.
InitWarm ==
  /\ pc = LoopStart
  /\ M = [m \in Motors |-> Motor0]
  /\ out = [m \in Motors |-> [inA |-> FALSE, inB |-> FALSE, pwm |-> 0]]
  /\ encCount = [m \in Motors |-> 0]
  /\ encA = [m \in Motors |-> TRUE]
  /\ encB = [m \in Motors |-> m = 1]
  /\ pend = [m \in Motors |-> [A |-> FALSE, B |-> FALSE]]
  /\ intEnabled = TRUE
  /\ nowCnt = 0
  /\ clock = U32(SetupDelayMs + SAMPLE_MS)
  /\ lastMs = clock
  /\ io = NoIo
  /\ uptime = 0
  /\ sinceTick = 0
  /\ tickLog = LoopBody
  /\ shaft = [m \in Motors |-> 0]
  /\ edges = 0
  /\ past = [Past0 EXCEPT !.track = TRUE]

\* ------------------------------------------------------- quadrature decoder
\* One quadrature step of motor m's shaft in direction d (+1 / -1).  In the
\* cycle 00 -> 10 -> 11 -> 01 -> 00 (d = +1) phase A changes when A = B and
\* phase B otherwise; in the reverse cycle it is the other way round.  The
\* changed pin latches its CHANGE interrupt.  Edges come no faster than
\* they are serviced: the previous edge of this encoder has been handled.
Edge(m, d) ==
  /\ ~pend[m].A /\ ~pend[m].B
  /\ edges < MaxEdges
  /\ edges' = edges + 1
  /\ shaft' = [shaft EXCEPT ![m] = @ + d]
  /\ IF (encA[m] = encB[m]) = (d = 1)
       THEN /\ encA' = [encA EXCEPT ![m] = ~@]
            /\ pend' = [pend EXCEPT ![m].A = TRUE]
            /\ UNCHANGED encB
       ELSE /\ encB' = [encB EXCEPT ![m] = ~@]
            /\ pend' = [pend EXCEPT ![m].B = TRUE]
            /\ UNCHANGED encA
  /\ UNCHANGED <<pc, M, out, encCount, intEnabled, nowCnt, clock, lastMs,
                 io, uptime, sinceTick, tickLog, past>>

\* count change made by isrA1 / isrA2 for the levels it reads
IsrADelta(a, b) == IF a = b THEN 1 ELSE -1
\* variant: phase B handler with the polarity of the phase A handler
IsrBDelta_LikeA(a, b) == IF a = b THEN 1 ELSE -1

\* count change made by isrB1 / isrB2
IsrBDelta(a, b) == IF a = b THEN -1 ELSE 1

\* As InitWarm, but encoder 1 has made one forward quadrature step after the
\* first tick read its counter: phase A fell and its handler has counted
\* the edge, which no tick has sampled yet.
InitLive ==
  /\ pc = LoopStart
  /\ M = [m \in Motors |-> Motor0]
  /\ out = [m \in Motors |-> [inA |-> FALSE, inB |-> FALSE, pwm |-> 0]]
  /\ encCount = [m \in Motors |-> IF m = 1 THEN IsrADelta(FALSE, TRUE) ELSE 0]
  /\ encA = [m \in Motors |-> m # 1]
  /\ encB = [m \in Motors |-> m = 1]
  /\ pend = [m \in Motors |-> [A |-> FALSE, B |-> FALSE]]
  /\ intEnabled = TRUE
  /\ nowCnt = 0
  /\ clock = U32(SetupDelayMs + SAMPLE_MS)
  /\ lastMs = clock
  /\ io = NoIo
  /\ uptime = 0
  /\ sinceTick = 0
  /\ tickLog = LoopBody
  /\ shaft = [m \in Motors |-> IF m = 1 THEN 1 ELSE 0]
  /\ edges = 1
  /\ past = [Past0 EXCEPT !.track = TRUE,
                          !.held[1] = {0, IsrADelta(FALSE, TRUE)}]

\* As InitLive, some 49.7 days later: the last tick ran 30 ms before the
\* 32-bit millisecond clock wraps.
InitWrap ==
  /\ pc = LoopStart
  /\ M = [m \in Motors |-> Motor0]
  /\ out = [m \in Motors |-> [inA |-> FALSE, inB |-> FALSE, pwm |-> 0]]
  /\ encCount = [m \in Motors |-> IF m = 1 THEN IsrADelta(FALSE, TRUE) ELSE 0]
  /\ encA = [m \in Motors |-> m # 1]
  /\ encB = [m \in Motors |-> m = 1]
  /\ pend = [m \in Motors |-> [A |-> FALSE, B |-> FALSE]]
  /\ intEnabled = TRUE
  /\ nowCnt = 0
  /\ clock = <<Limb - 1, Limb - 30>>
  /\ lastMs = clock
  /\ io = NoIo
  /\ uptime = 0
  /\ sinceTick = 0
  /\ tickLog = LoopBody
  /\ shaft = [m \in Motors |-> IF m = 1 THEN 1 ELSE 0]
  /\ edges = 1
  /\ past = [Past0 EXCEPT !.track = TRUE,
                          !.held[1] = {0, IsrADelta(FALSE, TRUE)}]

\* variant: the phase A handler of either channel counts into encCount1
IsrA_SharedCounter(m) ==
  /\ intEnabled /\ pend[m].A
  /\ pend' = [pend EXCEPT ![m].A = FALSE]
  /\ encCount' = [encCount EXCEPT ![1] = @ + IsrADelta(encA[m], encB[m])]
  /\ past' = Held(past, 1, encCount'[1])
  /\ UNCHANGED <<pc, M, out, encA, encB, intEnabled, nowCnt, clock, lastMs,
                 io, uptime, sinceTick, tickLog, shaft, edges>>

IsrA(m) ==
  /\ intEnabled /\ pend[m].A
  /\ pend' = [pend EXCEPT ![m].A = FALSE]
  /\ encCount' = [encCount EXCEPT ![m] = @ + IsrADelta(encA[m], encB[m])]
  /\ past' = Held(past, m, encCount'[m])
  /\ UNCHANGED <<pc, M, out, encA, encB, intEnabled, nowCnt, clock, lastMs,
                 io, uptime, sinceTick, tickLog, shaft, edges>>

IsrB(m) ==
  /\ intEnabled /\ pend[m].B
  /\ pend' = [pend EXCEPT ![m].B = FALSE]
  /\ encCount' = [encCount EXCEPT ![m] = @ + IsrBDelta(encA[m], encB[m])]
  /\ past' = Held(past, m, encCount'[m])
  /\ UNCHANGED <<pc, M, out, encA, encB, intEnabled, nowCnt, clock, lastMs,
                 io, uptime, sinceTick, tickLog, shaft, edges>>


\* ------------------------------------------------------------ command sink
\* variant: only the left target is assigned
SetTargets_LeftOnly(mot, l, r) ==
  [mot EXCEPT ![1].target = l]

\* variant: the two setpoints are cross-wired
SetTargets_Swapped(mot, l, r) ==
  [mot EXCEPT ![1].target = r, ![2].target = l]

\* M1.target = l; M2.target = r
SetTargets(mot, l, r) ==
  [mot EXCEPT ![1].target = l, ![2].target = r]

\* variant: stop also clears the controller state
StopTargets_Reset(mot) ==
  [m \in Motors |-> [mot[m] EXCEPT !.target = 0, !.integ = 0, !.duty = 0]]

\* M1.target = 0; M2.target = 0
StopTargets(mot) == SetTargets(mot, 0, 0)

\* the /cmd handler's value for one argument
CmdArg(text) == constrain(toInt(text), -CMD_CLAMP, CMD_CLAMP)

\* variant: "cur" printed before "tgt"
TelemetryNums_SpeedFirst(mot) ==
  <<Fmt1(mot[1].speed), Fmt1(mot[1].target),
    Fmt1(mot[2].speed), Fmt1(mot[2].target)>>

\* the numbers of {"l":{"tgt":%.1f,"cur":%.1f},"r":{"tgt":%.1f,"cur":%.1f}}
TelemetryNums(mot) ==
  <<Fmt1(mot[1].target), Fmt1(mot[1].speed),
    Fmt1(mot[2].target), Fmt1(mot[2].speed)>>

\* variant: /cmd without the test for missing arguments (an absent
\* argument reads as the empty string)
HttpServe_NoArgCheck(req, mot) ==
  CASE req.path = "/" ->
         [M |-> mot, status |-> 200, reply |-> Reply("INDEX_HTML", <<>>)]
    [] req.path = "/cmd" ->
         LET l == CmdArg(req.l)
             r == CmdArg(req.r)
         IN  [M |-> SetTargets(mot, ToFloat(l), ToFloat(r)),
              status |-> 200, reply |-> Reply("OK L=%d R=%d", <<l, r>>)]
    [] req.path = "/stop" ->
         [M |-> StopTargets(mot), status |-> 200, reply |-> Reply("OK STOP", <<>>)]
    [] req.path = "/telemetry" ->
         [M |-> mot, status |-> 200,
          reply |-> Reply("telemetry", TelemetryNums(mot))]
    [] OTHER ->
         [M |-> mot, status |-> 0, reply |-> NoReply]

\* the four routes registered in setupAPAndHTTP; result [M, status, reply]
HttpServe(req, mot) ==
  CASE req.path = "/" ->
         [M |-> mot, status |-> 200, reply |-> Reply("INDEX_HTML", <<>>)]
    [] req.path = "/cmd" ->
         IF ~req.hasL \/ ~req.hasR
           THEN [M |-> mot, status |-> 400,
                 reply |-> Reply("Error: missing l or r parameter", <<>>)]
           ELSE LET l == CmdArg(req.l)
                    r == CmdArg(req.r)
                IN  [M |-> SetTargets(mot, ToFloat(l), ToFloat(r)),
                     status |-> 200, reply |-> Reply("OK L=%d R=%d", <<l, r>>)]
    [] req.path = "/stop" ->
         [M |-> StopTargets(mot), status |-> 200, reply |-> Reply("OK STOP", <<>>)]
    [] req.path = "/telemetry" ->
         [M |-> mot, status |-> 200,
          reply |-> Reply("telemetry", TelemetryNums(mot))]
    [] OTHER ->
         [M |-> mot, status |-> 0, reply |-> NoReply]

\* server.handleClient(): serves at most one pending request
HandleClient ==
  /\ AtStep("http", 0)
  /\ \E req \in Requests \cup {NoReq} :
       LET res == HttpServe(req, M)
       IN  /\ M' = res.M
           /\ io' = Io("http", req, NoLine, res.status, res.reply)
  /\ past' = Commanded(Entered(past), io')
  /\ pc' = After(pc)
  /\ tickLog' = <<pc>>
  /\ UNCHANGED <<out, encCount, encA, encB, pend, intEnabled, nowCnt, clock,
                 lastMs, uptime, sinceTick, shaft, edges>>

\* handleSerial() for the line in the receive buffer (NoLine: nothing
\* available); result [M, reply]
SerialServe(line, mot) ==
  IF line = NoLine THEN [M |-> mot, reply |-> NoReply]
  ELSE
    LET s == trim(line)
        sc == sscanf2(s)
    IN  IF Len(s) = 0 THEN [M |-> mot, reply |-> NoReply]
        ELSE IF equalsIgnoreCaseStop(s)
          THEN [M |-> StopTargets(mot),
                reply |-> Reply("STOP command received", <<>>)]
        ELSE IF sc.n = 2
          THEN [M |-> SetTargets(mot, ToFloat(sc.spL), ToFloat(sc.spR)),
                reply |-> Reply("Serial CMD: L=%d R=%d", <<sc.spL, sc.spR>>)]
        ELSE [M |-> mot,
              reply |-> Reply("Invalid format. Use: <left> <right> or stop", <<>>)]

HandleSerial ==
  /\ AtStep("serial", 0)
  /\ \E line \in SerialLines \cup {NoLine} :
       LET res == SerialServe(line, M)
       IN  /\ M' = res.M
           /\ io' = Io("serial", NoReq, line, 0, res.reply)
  /\ past' = Commanded(past, io')
  /\ Advance
  /\ UNCHANGED <<out, encCount, encA, encB, pend, intEnabled, nowCnt, clock,
                 lastMs, uptime, sinceTick, shaft, edges>>

\* ------------------------------------------------------------- scheduler
\* time that may pass between two reads of millis()
DtSet == {49, 50}

\* variant: strict comparison
TickDue_Strict(now, last) ==
  LET d == U32Sub(now, last) IN d[1] > 0 \/ d[2] > SAMPLE_MS

\* now - lastMs >= SAMPLE_MS, in uint32_t arithmetic
TickDue(now, last) == U32Geq(U32Sub(now, last), SAMPLE_MS)

\* the reference timestamp after a tick that ran at `now'
NextRef(now, last) == now

\* variant: lastMs = now executed at every poll, not only in a tick
Sched_RefreshAlways ==
  /\ AtStep("sched", 0)
  /\ \E dt \in DtSet :
       LET now == U32Add(clock, dt)
       IN  /\ uptime + dt <= MaxUptime
           /\ uptime' = uptime + dt
           /\ clock' = now
           /\ past' = Polled(past, dt)
           /\ lastMs' = now
           /\ IF TickDue(now, lastMs)
                THEN /\ sinceTick' = 0
                     /\ pc' = After(pc)
                ELSE /\ sinceTick' = sinceTick + dt
                     /\ pc' = LoopStart
  /\ tickLog' = Append(tickLog, pc)
  /\ Silent
  /\ UNCHANGED <<M, out, encCount, encA, encB, pend, intEnabled, nowCnt,
                 shaft, edges>>

\* uint32_t now = millis(); if (now - lastMs >= SAMPLE_MS) { lastMs = now; ...
Sched ==
  /\ AtStep("sched", 0)
  /\ \E dt \in DtSet :
       LET now == U32Add(clock, dt)
       IN  /\ uptime + dt <= MaxUptime
           /\ uptime' = uptime + dt
           /\ clock' = now
           /\ past' = Polled(past, dt)
           /\ IF TickDue(now, lastMs)
                THEN /\ lastMs' = NextRef(now, lastMs)
                     /\ sinceTick' = 0
                     /\ pc' = After(pc)
                ELSE /\ lastMs' = lastMs
                     /\ sinceTick' = sinceTick + dt
                     /\ pc' = LoopStart
  /\ tickLog' = Append(tickLog, pc)
  /\ Silent
  /\ UNCHANGED <<M, out, encCount, encA, encB, pend, intEnabled, nowCnt,
                 shaft, edges>>

\* ---------------------------------------------------------- speed estimator
\* variant: the counter is read without masking interrupts
NoInterrupts_Missing(m) ==
  /\ AtStep("us_ni", m)
  /\ intEnabled' = intEnabled
  /\ Advance
  /\ Silent
  /\ UNCHANGED <<M, out, encCount, encA, encB, pend, nowCnt, clock, lastMs,
                 uptime, sinceTick, shaft, edges, past>>

\* noInterrupts();
NoInterrupts(m) ==
  /\ AtStep("us_ni", m)
  /\ intEnabled' = FALSE
  /\ Advance
  /\ Silent
  /\ UNCHANGED <<M, out, encCount, encA, encB, pend, nowCnt, clock, lastMs,
                 uptime, sinceTick, shaft, edges, past>>

\* long nowCnt = *(m.pCount);
ReadCount(m) ==
  /\ AtStep("us_rd", m)
  /\ nowCnt' = encCount[m]
  /\ Advance
  /\ Silent
  /\ UNCHANGED <<M, out, encCount, encA, encB, pend, intEnabled, clock, lastMs,
                 uptime, sinceTick, shaft, edges, past>>

\* variant: the count difference is not divided by the sample period
SpeedOf_Unscaled(delta) == ToFloat(delta)

\* (float)delta / Ts with Ts = SAMPLE_MS / 1000.0f
SpeedOf(delta) == (ToFloat(delta) * 1000) \div SAMPLE_MS

\* variant: m.lastCount is not advanced to the value read
EndUpdateSpeed_KeepsSnapshot(m) ==
  /\ AtStep("us_ei", m)
  /\ intEnabled' = TRUE
  /\ M' = [M EXCEPT ![m].speed = SpeedOf(nowCnt - M[m].lastCount)]
  /\ nowCnt' = 0
  /\ past' = Sampled(past, m, M'[m].speed)
  /\ Advance
  /\ Silent
  /\ UNCHANGED <<out, encCount, encA, encB, pend, clock, lastMs,
                 uptime, sinceTick, shaft, edges>>

\* interrupts(); delta = nowCnt - m.lastCount; m.lastCount = nowCnt;
\* m.speed = (float)delta / Ts;
EndUpdateSpeed(m) ==
  /\ AtStep("us_ei", m)
  /\ intEnabled' = TRUE
  /\ M' = [M EXCEPT ![m].lastCount = nowCnt,
                    ![m].speed = SpeedOf(nowCnt - M[m].lastCount)]
  /\ nowCnt' = 0
  /\ past' = Sampled(past, m, M'[m].speed)
  /\ Advance
  /\ Silent
  /\ UNCHANGED <<out, encCount, encA, encB, pend, clock, lastMs,
                 uptime, sinceTick, shaft, edges>>


\* ------------------------------------------------------------ PID controller
\* variant: saturation judged by the duty alone
SaturatingHigh_DutyOnly(mo) == mo.duty >= PWM_MAX

\* saturatingHigh / saturatingLow, from the duty and u left by the previous step
SaturatingHigh(mo) == mo.duty >= PWM_MAX /\ mo.u >= ToFloat(PWM_MAX)

\* variant: saturation is recognised at the upper limit only
SaturatingLow_Never(mo) == FALSE

SaturatingLow(mo) == mo.duty >= PWM_MAX /\ mo.u <= -ToFloat(PWM_MAX)

\* variant: no conditional integration
ShouldIntegrate_Always(mo, err) == TRUE

ShouldIntegrate(mo, err) ==
  /\ ~(SaturatingHigh(mo) /\ err > 0)
  /\ ~(SaturatingLow(mo) /\ err < 0)

\* variant: integral left unclamped
ClampInteg_None(x) == x

\* if (m.integ > I_MAX) m.integ = I_MAX; if (m.integ < -I_MAX) m.integ = -I_MAX;
ClampInteg(x) == IF x > I_MAX THEN I_MAX ELSE IF x < -I_MAX THEN -I_MAX ELSE x

\* the integral after a step with error err
IntegAfter(mo, err) ==
  IF ShouldIntegrate(mo, err) THEN ClampInteg(mo.integ + MulQ(Ki, err))
  ELSE mo.integ

\* variant: errPrev updated before the derivative is taken
PidUpdate_ErrPrevFirst(mo) ==
  LET err == mo.target - mo.speed
      P == MulQ(Kp, err)
      integ == IntegAfter(mo, err)
      deriv == MulQ(Kd, err - err)
  IN  [mo EXCEPT !.err = err, !.integ = integ, !.deriv = deriv,
                 !.errPrev = err, !.u = P + integ + deriv]

\* pidStep up to its call of applyMotor: the Motor struct after the step
PidUpdate(mo) ==
  LET err == mo.target - mo.speed
      P == MulQ(Kp, err)
      integ == IntegAfter(mo, err)
      deriv == MulQ(Kd, err - mo.errPrev)
  IN  [mo EXCEPT !.err = err, !.integ = integ, !.deriv = deriv,
                 !.errPrev = err, !.u = P + integ + deriv]

PidStep(m) ==
  /\ AtStep("pid", m)
  /\ M' = [M EXCEPT ![m] = PidUpdate(M[m])]
  /\ past' = Stepped(past, m, M)
  /\ Advance
  /\ Silent
  /\ UNCHANGED <<out, encCount, encA, encB, pend, intEnabled, nowCnt, clock,
                 lastMs, uptime, sinceTick, shaft, edges>>

\* ----------------------------------------------------------- actuation mapper
\* m.dir = (m.u >= 0.0f) ? +1 : -1
DirOf(u) == IF u >= 0 THEN 1 ELSE -1

\* variant: neither the magnitude nor dutyF is clamped
DutyOf_NoClamp(u) ==
  LET mag == Abs(u)
      den == PWM_MAX * Q
      num == MIN_DUTY_START * den + mag * (PWM_MAX - MIN_DUTY_START)
  IN  IF mag < ToFloat(1) THEN 0 ELSE (2 * num + den) \div (2 * den)

\* variant: the dead zone includes |u| = 1
DutyOf_DeadZoneInclusive(u) ==
  LET mag0 == Abs(u)
      top == ToFloat(PWM_MAX)
      mag == IF mag0 > top THEN top ELSE mag0
      den == PWM_MAX * Q
      num0 == MIN_DUTY_START * den + mag * (PWM_MAX - MIN_DUTY_START)
      num == IF num0 > PWM_MAX * den THEN PWM_MAX * den ELSE num0
  IN  IF mag0 <= ToFloat(1) THEN 0 ELSE (2 * num + den) \div (2 * den)

\* variant: dutyF truncated instead of rounded
DutyOf_Truncating(u) ==
  LET mag0 == Abs(u)
      top == ToFloat(PWM_MAX)
      mag == IF mag0 > top THEN top ELSE mag0
      den == PWM_MAX * Q
      num0 == MIN_DUTY_START * den + mag * (PWM_MAX - MIN_DUTY_START)
      num == IF num0 > PWM_MAX * den THEN PWM_MAX * den ELSE num0
  IN  IF mag0 < ToFloat(1) THEN 0 ELSE num \div den

\* variant: no dead zone, the start duty is applied from u = 0 on
DutyOf_NoDeadZone(u) ==
  LET mag0 == Abs(u)
      top == ToFloat(PWM_MAX)
      mag == IF mag0 > top THEN top ELSE mag0
      den == PWM_MAX * Q
      num0 == MIN_DUTY_START * den + mag * (PWM_MAX - MIN_DUTY_START)
      num == IF num0 > PWM_MAX * den THEN PWM_MAX * den ELSE num0
  IN  (2 * num + den) \div (2 * den)

\* the duty applyMotor computes for control signal u:
\*   mag < 1 -> 0; else mag clamped to PWM_MAX,
\*   dutyF = MIN_DUTY_START + mag * (PWM_MAX - MIN_DUTY_START) / PWM_MAX,
\*   dutyF clamped to PWM_MAX, duty = (int)(dutyF + 0.5f).
\* dutyF is the fraction num / den.
DutyOf(u) ==
  LET mag0 == Abs(u)
      top == ToFloat(PWM_MAX)
      mag == IF mag0 > top THEN top ELSE mag0
      den == PWM_MAX * Q
      num0 == MIN_DUTY_START * den + mag * (PWM_MAX - MIN_DUTY_START)
      num == IF num0 > PWM_MAX * den THEN PWM_MAX * den ELSE num0
  IN  IF mag0 < ToFloat(1) THEN 0 ELSE (2 * num + den) \div (2 * den)

\* variant: the pins follow the direction even at duty 0
PinsOf_NoCoast(duty, dir) ==
  IF dir > 0 THEN [inA |-> TRUE, inB |-> FALSE]
  ELSE [inA |-> FALSE, inB |-> TRUE]

\* levels written to inA / inB: coast, forward or reverse
PinsOf(duty, dir) ==
  IF duty = 0 THEN [inA |-> FALSE, inB |-> FALSE]
  ELSE IF dir > 0 THEN [inA |-> TRUE, inB |-> FALSE]
  ELSE [inA |-> FALSE, inB |-> TRUE]

\* variant: m.dir is not refreshed from u
ApplyMotor_DirStale(m) ==
  /\ AtStep("apply", m)
  /\ LET dir == M[m].dir
         duty == DutyOf(M[m].u)
         pins == PinsOf(duty, dir)
     IN  /\ M' = [M EXCEPT ![m].dir = dir, ![m].duty = duty]
         /\ out' = [out EXCEPT ![m] = [inA |-> pins.inA, inB |-> pins.inB,
                                      pwm |-> duty]]
  /\ Advance
  /\ Silent
  /\ UNCHANGED <<encCount, encA, encB, pend, intEnabled, nowCnt, clock,
                 lastMs, uptime, sinceTick, shaft, edges, past>>

ApplyMotor(m) ==
  /\ AtStep("apply", m)
  /\ LET dir == DirOf(M[m].u)
         duty == DutyOf(M[m].u)
         pins == PinsOf(duty, dir)
     IN  /\ M' = [M EXCEPT ![m].dir = dir, ![m].duty = duty]
         /\ out' = [out EXCEPT ![m] = [inA |-> pins.inA, inB |-> pins.inB,
                                      pwm |-> duty]]
  /\ Advance
  /\ Silent
  /\ UNCHANGED <<encCount, encA, encB, pend, intEnabled, nowCnt, clock,
                 lastMs, uptime, sinceTick, shaft, edges, past>>

\* ------------------------------------------- one control stage in isolation
\* A Motor struct as a previous PID step and actuation left it (error e0,
\* integral i0, derivative term d0; i0 and d0 in units of 1/Q), with the
\* target and speed the coming PID step will see.
StageMotor(target, speed, e0, i0, d0) ==
  LET u0 == MulQ(Kp, ToFloat(e0)) + i0 + d0
  IN  [lastCount |-> 0, target |-> ToFloat(target), speed |-> ToFloat(speed),
       err |-> ToFloat(e0), errPrev |-> ToFloat(e0), integ |-> i0,
       deriv |-> d0, u |-> u0, duty |-> DutyOf(u0), dir |-> DirOf(u0)]

\* Controller states a PID step is started from: at rest with small, medium,
\* saturating and oversized targets of both signs; with an integral that
\* puts the effort inside, on and just above the dead zone; after a step
\* that saturated high or low, with errors of both signs; after a step
\* whose duty was full although u stayed below PWM_MAX.
StageMotors ==
  { StageMotor(0, 0, 0, 0, 0),
    StageMotor(1, 0, 0, 0, 0),
    StageMotor(-2, 0, 0, 0, 0),
    StageMotor(300, 0, 0, 0, 0),
    StageMotor(728, 0, 0, 0, 0),
    StageMotor(-729, 0, 0, 0, 0),
    StageMotor(1000, 0, 0, 0, 0),
    StageMotor(-2500, 0, 0, 0, 0),
    StageMotor(50, 0, 0, -17400, 0),
    StageMotor(50, 0, 0, -17300, 0),
    StageMotor(-50, 0, 0, 17400, 0),
    StageMotor(-50, 0, 0, 17300, 0),
    StageMotor(1100, 0, 1100, 0, 0),
    StageMotor(0, 20, 1100, 0, 0),
    StageMotor(-1100, 0, -1100, 0, 0),
    StageMotor(0, -20, -1100, 0, 0),
    StageMotor(1000, 0, 1000, 5000, 625) }

\* loop() about to call pidStep(M1) in a tick, the channels in such states
InitStage ==
  /\ pc = <<"pid", 1>>
  /\ M \in [Motors -> StageMotors]
  /\ out = [m \in Motors |->
              [inA |-> M[m].duty > 0 /\ M[m].dir = 1,
               inB |-> M[m].duty > 0 /\ M[m].dir = -1,
               pwm |-> M[m].duty]]
  /\ encCount = [m \in Motors |-> 0]
  /\ encA = [m \in Motors |-> TRUE]
  /\ encB = [m \in Motors |-> m = 1]
  /\ pend = [m \in Motors |-> [A |-> FALSE, B |-> FALSE]]
  /\ intEnabled = TRUE
  /\ nowCnt = 0
  /\ clock = U32(SetupDelayMs + SAMPLE_MS)
  /\ lastMs = clock
  /\ io = NoIo
  /\ uptime = 0
  /\ sinceTick = 0
  /\ tickLog = SubSeq(LoopBody, 1, 9)
  /\ shaft = [m \in Motors |-> 0]
  /\ edges = 0
  /\ past = Past0

\* pidStep(M1); pidStep(M2) of that tick
NextStage ==
  \/ \E m \in Motors : PidStep(m)
  \/ \E m \in Motors : ApplyMotor(m)

\* --------------------------------------------------------------- the system
Next ==
  \/ HandleClient
  \/ HandleSerial
  \/ Sched
  \/ \E m \in Motors : NoInterrupts(m)
  \/ \E m \in Motors : ReadCount(m)
  \/ \E m \in Motors : EndUpdateSpeed(m)
  \/ \E m \in Motors : PidStep(m)
  \/ \E m \in Motors : ApplyMotor(m)
  \/ \E m \in Motors, d \in {1, -1} : Edge(m, d)
  \/ \E m \in Motors : IsrA(m)
  \/ \E m \in Motors : IsrB(m)

Spec == Init /\ [][Next]_vars

\* the same program observed from its second pass of loop()
SpecWarm == InitWarm /\ [][Next]_vars

\* the PID and actuation stage of one tick, from a range of controller states
\* The program from its second pass of loop() on, an encoder edge counted,
\* with a processor that keeps executing: loop() is called again whenever it returns, a latched
\* interrupt is serviced, and each read of millis() returns a later time.
SpecLive == InitLive /\ [][Next]_vars /\ WF_vars(Next)

\* The program around the wrap of millis()
SpecWrap == InitWrap /\ [][Next]_vars

SpecStage == InitStage /\ [][NextStage]_vars

TypeOK ==
  /\ pc \in {LoopBody[i] : i \in 1..Len(LoopBody)}
  /\ \A m \in Motors : M[m].dir \in {1, -1}
  /\ intEnabled \in BOOLEAN


\* ================================================================== claims
IsPrefix(s, t) == Len(s) <= Len(t) /\ s = SubSeq(t, 1, Len(s))

\* a step of loop() taken from label p
LoopStepFrom(label) == pc[1] = label /\ pc' # pc

\* text that is one decimal integer with optional sign
IsInteger(s) ==
  LET k == IF Len(s) > 0 /\ (s[1] = "-" \/ s[1] = "+") THEN 2 ELSE 1
  IN  k <= Len(s) /\ \A i \in k..Len(s) : IsDigit(s[i])

\* text that is two decimal integers separated by white space
IsTwoIntegers(s) ==
  \E i \in 1..Len(s) :
    /\ IsSpace(s[i])
    /\ IsInteger(trim(SubSeq(s, 1, i - 1)))
    /\ IsInteger(trim(SubSeq(s, i + 1, Len(s))))

\* a /cmd request that does not carry two numeric setpoints
MalformedReq(req) ==
  /\ req.path = "/cmd"
  /\ ~(req.hasL /\ IsInteger(req.l) /\ req.hasR /\ IsInteger(req.r))

\* a non-empty serial line that is neither a stop directive nor two integers
MalformedLine(line) ==
  /\ line # NoLine
  /\ Len(trim(line)) > 0
  /\ ~equalsIgnoreCaseStop(trim(line))
  /\ ~IsTwoIntegers(trim(line))

\* C1: in every reachable state both targets lie within
\* [-CMD_CLAMP, CMD_CLAMP], whichever command source wrote them.
C1_TargetsClamped ==
  \A m \in Motors :
    /\ M[m].target >= -ToFloat(CMD_CLAMP)
    /\ M[m].target <= ToFloat(CMD_CLAMP)

\* C2: a step that handles a malformed command (HTTP or serial) changes no
\* field of either Motor and answers with a rejection diagnostic.
C2_MalformedRejected ==
  [][ /\ (LoopStepFrom("http") /\ MalformedReq(io'.req))
         => (M' = M /\ io'.status >= 400)
      /\ (LoopStepFrom("serial") /\ MalformedLine(io'.line))
         => (M' = M /\ io'.reply.text = "Invalid format. Use: <left> <right> or stop")
    ]_vars

\* C3: in every reachable state 0 <= duty <= DUTY_MAX for both channels
\* (the struct field and the value written to the PWM peripheral).
C3_DutyInRange ==
  \A m \in Motors :
    /\ DUTY_MIN <= M[m].duty /\ M[m].duty <= DUTY_MAX
    /\ DUTY_MIN <= out[m].pwm /\ out[m].pwm <= DUTY_MAX

\* C3 witness: an actuation of an effort beyond the actuator range
C3_Witness ==
  \E m \in Motors :
    /\ pc = After(<<"apply", m>>)
    /\ Abs(M[m].u) > ToFloat(PWM_MAX)
    /\ M[m].duty = DUTY_MAX

\* C4: in every reachable state -I_MAX <= integral <= I_MAX for both channels.
C4_IntegBounded ==
  \A m \in Motors : -I_MAX <= M[m].integ /\ M[m].integ <= I_MAX

\* C4 witness: a PID step whose increment alone exceeds the clamp
C4_Witness ==
  \E m \in Motors :
    /\ pc = <<"apply", m>>
    /\ MulQ(Ki, M[m].err) > I_MAX
    /\ M[m].integ = I_MAX

\* C5: a PID step that starts with duty == DUTY_MAX and u >= DUTY_MAX left by
\* the previous step and has error > 0 leaves the integral unchanged;
\* symmetrically for u <= -DUTY_MAX and error < 0.
C5_AntiWindup ==
  [][ \A m \in Motors :
        ( /\ pc = <<"pid", m>> /\ pc' # pc
          /\ M[m].duty = DUTY_MAX
          /\ \/ M[m].u >= ToFloat(DUTY_MAX) /\ M'[m].err > 0
             \/ M[m].u <= -ToFloat(DUTY_MAX) /\ M'[m].err < 0 )
        => M'[m].integ = M[m].integ
    ]_vars

\* C5 witness: a PID step has just run (actuation still pending, so duty and
\* dir are the previous step's) on a channel saturated forward, with positive
\* error and an integral that integration would have raised to at least
\* min(I_MAX, Ki * error).
C5_Witness ==
  \E m \in Motors :
    /\ pc = <<"apply", m>>
    /\ M[m].duty = DUTY_MAX /\ M[m].dir = 1
    /\ M[m].err > 0
    /\ M[m].integ >= 0
    /\ M[m].integ < I_MAX
    /\ M[m].integ < MulQ(Ki, M[m].err)

\* every Motor field except target
Untargeted(mo) == [mo EXCEPT !.target = 0]

\* C6: a stop directive (HTTP /stop or serial "stop") sets both targets to 0
\* and changes no other field of either channel, no output and no counter.
C6_StopOnlyZerosTargets ==
  [][ ( \/ LoopStepFrom("http") /\ io'.req.path = "/stop"
        \/ LoopStepFrom("serial") /\ io'.line # NoLine
             /\ equalsIgnoreCaseStop(trim(io'.line)) )
      => /\ \A m \in Motors : M'[m].target = 0
         /\ \A m \in Motors : Untargeted(M'[m]) = Untargeted(M[m])
         /\ UNCHANGED <<out, encCount, lastMs, clock, intEnabled>>
    ]_vars

\* C6 witness: a stop has just been served while a channel still carries
\* integral and duty
C6_Witness ==
  /\ io.req.path = "/stop"
  /\ pc = <<"serial", 0>>
  /\ \E m \in Motors : M[m].integ # 0 /\ M[m].duty # 0 /\ M[m].target = 0


\* the stages of channel m in the current pass, in execution order
StagesOf(m) == SelectSeq(tickLog, LAMBDA e : e[2] = m)

\* speed update (three steps), PID step, actuation mapping
Pipeline(m) ==
  << <<"us_ni", m>>, <<"us_rd", m>>, <<"us_ei", m>>, <<"pid", m>>, <<"apply", m>> >>

\* C7: in every pass of loop() each channel's stages are a prefix of: one
\* speed update, one PID step, one actuation mapping; the pacing test runs at
\* most once per pass and no command or telemetry handling (nor a second
\* pacing test) follows a stage; a finished pass ran the whole pipeline of
\* both channels or no stage at all.
C7_TickStagesInOrder ==
  /\ \A m \in Motors : IsPrefix(StagesOf(m), Pipeline(m))
  /\ \A i, j \in 1..Len(tickLog) :
       (i < j /\ tickLog[i][2] # 0) => tickLog[j][2] # 0
  /\ Len(SelectSeq(tickLog, LAMBDA e : e = <<"sched", 0>>)) <= 1
  /\ (pc = LoopStart) =>
       \/ \A m \in Motors : StagesOf(m) = <<>>
       \/ \A m \in Motors : StagesOf(m) = Pipeline(m)

\* C7 witness: a pass that ran a complete tick has just finished
C7_Witness ==
  /\ pc = LoopStart
  /\ \A m \in Motors : StagesOf(m) = Pipeline(m)

\* C8 as stated: no stage of channel 2 runs before a stage of channel 1 in
\* the same tick.
C8_ChannelAThenChannelB ==
  \A i, j \in 1..Len(tickLog) :
    (i < j) => ~(tickLog[i][2] = 2 /\ tickLog[j][2] = 1)

\* C8 amended: the stages of a tick run one after another in the order
\* speed update 1, speed update 2, PID step and actuation 1, PID step and
\* actuation 2.
C8_StageByStage ==
  IsPrefix(SelectSeq(tickLog, LAMBDA e : e[2] # 0),
           SubSeq(Pipeline(1), 1, 3) \o SubSeq(Pipeline(2), 1, 3)
             \o SubSeq(Pipeline(1), 4, 5) \o SubSeq(Pipeline(2), 4, 5))

\* C8 witness: channel 1's PID step is about to run after channel 2's speed
\* update has completed
C8_Witness ==
  /\ pc = <<"pid", 1>>
  /\ StagesOf(2) = SubSeq(Pipeline(2), 1, 3)

\* C9: a pacing test starts a tick exactly when at least SAMPLE_MS true
\* milliseconds have passed since the reference was set (so consecutive ticks
\* are at least SAMPLE_MS apart); a tick sets the reference to the value just
\* read from millis(); a poll that does not tick leaves the reference alone;
\* and a tick is entered only from a pacing test, once.
C9_Pacing ==
  [][ /\ LoopStepFrom("sched") =>
           LET ticked == pc' = <<"us_ni", 1>>
               elapsed == sinceTick + (uptime' - uptime)
           IN  /\ ticked <=> elapsed >= SAMPLE_MS
               /\ ticked => lastMs' = clock'
               /\ ~ticked => (lastMs' = lastMs /\ pc' = LoopStart)
      /\ (pc' = <<"us_ni", 1>> /\ pc' # pc) => pc = <<"sched", 0>>
      /\ ~LoopStepFrom("sched") => lastMs' = lastMs
    ]_vars

\* C9 witness: a poll 49 ms after a tick has just declined to tick
C9_Witness ==
  /\ pc = LoopStart
  /\ Len(tickLog) = 3
  /\ sinceTick = SAMPLE_MS - 1
  /\ lastMs # clock

\* C10: every handled edge changes that channel's count by exactly one, and
\* whenever no edge of a channel awaits its handler the count equals the
\* start value minus the shaft's net quadrature steps: edges of one rotation
\* direction all count with one sign, whichever phase produced them.
C10_QuadratureCount ==
  [][ \A m \in Motors :
        /\ encCount'[m] # encCount[m] => Abs(encCount'[m] - encCount[m]) = 1
        /\ (~pend'[m].A /\ ~pend'[m].B) => encCount'[m] = -shaft'[m]
    ]_vars

\* C10 witness: two edges of one direction (one from each phase) counted
C10_Witness ==
  \E m \in Motors :
    /\ ~pend[m].A /\ ~pend[m].B
    /\ Abs(shaft[m]) = 2
    /\ encCount[m] = -shaft[m]

\* the steps of updateSpeed that run between noInterrupts() and interrupts()
InReadWindow == pc[1] \in {"us_rd", "us_ei"}

\* C11: interrupts are off exactly between noInterrupts() and interrupts()
\* of updateSpeed; while they are off no handler runs (no counter changes),
\* so the value copied is the value the counter holds throughout the read.
C11_ReadExcludesIsr ==
  /\ [](/\ intEnabled <=> ~InReadWindow
        /\ pc[1] = "us_ei" => nowCnt = encCount[pc[2]])
  /\ [][~intEnabled => encCount' = encCount]_vars

\* C11 witness: an edge of the channel being read arrived inside the read
\* window and waits for its handler; the copy equals the counter
C11_Witness ==
  /\ pc[1] = "us_ei"
  /\ ~intEnabled
  /\ pend[pc[2]].A \/ pend[pc[2]].B
  /\ nowCnt = encCount[pc[2]]

\* the last step loop() completed is `label' of motor m
JustDid(label, m) ==
  tickLog # <<>> /\ tickLog[Len(tickLog)] = <<label, m>>

\* C12: a speed update of channel m leaves speed = (value read - previous
\* snapshot) / Ts (Ts = SAMPLE_MS / 1000 s) and snapshot = value read; it
\* changes no other field of either channel and writes no counter.
C12_SpeedUpdate ==
  [][ /\ LoopStepFrom("us_ei") =>
           LET m == pc[2] IN
             /\ M'[m].lastCount = nowCnt
             /\ M'[m].speed * SAMPLE_MS =
                  ToFloat(nowCnt - M[m].lastCount) * 1000
             /\ M' = [M EXCEPT ![m].lastCount = M'[m].lastCount,
                               ![m].speed = M'[m].speed]
      /\ (LoopStepFrom("us_ni") \/ LoopStepFrom("us_rd")) => M' = M
      /\ (pc[1] \in {"us_ni", "us_rd", "us_ei"} /\ pc' # pc) =>
           encCount' = encCount
    ]_vars

\* C12 witness: an update has just measured a moving shaft
C12_Witness ==
  \E m \in Motors :
    /\ JustDid("us_ei", m)
    /\ M[m].lastCount # 0
    /\ M[m].speed = ToFloat(M[m].lastCount * 20)

\* C13 (as stated): after the speed update of a tick, the velocity is the
\* change of the count over exactly one sample period: whenever millis()
\* was also read exactly SAMPLE_MS before this tick, velocity * Ts equals
\* the value read now minus some value the counter held from that earlier
\* read on.
C13_VelocityOverExactTs ==
  \A m \in Motors :
    (JustDid("us_ei", m) /\ past.agoOk) =>
      \E c \in past.ago[m] :
        M[m].speed * SAMPLE_MS = ToFloat(M[m].lastCount - c) * 1000

\* n is x printed with one decimal (n in tenths, x in units of 1/Q)
ShowsTenths(n, x) == 2 * Abs(10 * x - n * Q) <= Q

\* loop() has just answered a /telemetry request
TelemetryServed == LoopStepFrom("http") /\ io'.req.path = "/telemetry"

\* the target the last PID step of a channel consumed: err + speed, since
\* the step left err = target - speed and no tick has run since
Consumed(mo) == mo.err + mo.speed

\* C14 (as stated): a telemetry read answers, per channel, the target the
\* last PID step consumed and the speed it used, and changes no Motor
\* field, no counter and not the reference timestamp.
C14_TelemetryAsOfLastTick ==
  [][ TelemetryServed =>
        /\ io'.status = 200
        /\ \A m \in Motors :
             /\ ShowsTenths(io'.reply.nums[2 * m - 1], Consumed(M[m]))
             /\ ShowsTenths(io'.reply.nums[2 * m], M[m].speed)
        /\ UNCHANGED <<M, encCount, lastMs>>
    ]_vars

\* C14 (amended): a telemetry read answers, per channel, the target as the
\* command sink last wrote it and the speed of the last completed tick, and
\* changes no Motor field, no counter and not the reference timestamp.
C14_TelemetryCurrentTarget ==
  [][ TelemetryServed =>
        /\ io'.status = 200
        /\ pc = LoopStart
        /\ \A m \in Motors :
             /\ ShowsTenths(io'.reply.nums[2 * m - 1], M[m].target)
             /\ ShowsTenths(io'.reply.nums[2 * m], M[m].speed)
        /\ UNCHANGED <<M, encCount, lastMs>>
    ]_vars

\* C14 witness: telemetry has shown a target that no PID step has consumed
\* yet, next to a non-zero speed
C14_Witness ==
  /\ pc = <<"serial", 0>>
  /\ io.src = "http" /\ io.req.path = "/telemetry"
  /\ \E m \in Motors :
       /\ M[m].target # Consumed(M[m])
       /\ io.reply.nums[2 * m - 1] * Q = 10 * M[m].target
       /\ M[m].speed # 0

\* C15: a PID step leaves err = target - speed, deriv = Kd * (err - previous
\* err), u = Kp * err + integral + deriv (unclamped) and errPrev = err, the
\* integral being either kept or moved by Ki * err and clamped to
\* [-I_MAX, I_MAX]; it changes nothing else.  From rest with target 1000 and
\* speed 0 the step yields integral 300 and u = 1304, and the actuation
\* that follows yields duty 1023 and direction +1.
C15_PidStep ==
  [][ /\ LoopStepFrom("pid") =>
           LET m == pc[2]
               mo == M[m]
               nx == M'[m]
               raw == mo.integ + (Ki * nx.err) \div Q
           IN  /\ nx.err = mo.target - mo.speed
               /\ Q * nx.deriv = Kd * (nx.err - mo.errPrev)
               /\ Q * (nx.u - nx.integ - nx.deriv) = Kp * nx.err
               /\ nx.errPrev = nx.err
               /\ \/ nx.integ = mo.integ
                  \/ nx.integ = raw /\ Abs(raw) <= I_MAX
                  \/ nx.integ = I_MAX /\ raw > I_MAX
                  \/ nx.integ = -I_MAX /\ raw < -I_MAX
               /\ M' = [M EXCEPT ![m].err = nx.err, ![m].errPrev = nx.errPrev,
                                 ![m].integ = nx.integ, ![m].deriv = nx.deriv,
                                 ![m].u = nx.u]
               /\ mo = [Motor0 EXCEPT !.target = ToFloat(1000)] =>
                    nx.integ = ToFloat(300) /\ nx.u = ToFloat(1304)
      /\ LoopStepFrom("apply") =>
           LET m == pc[2] IN
             M[m].u = ToFloat(1304) => M'[m].duty = 1023 /\ M'[m].dir = 1
    ]_vars

\* C15 witness: the first step from rest with target 1000 has been actuated
C15_Witness ==
  \E m \in Motors :
    /\ JustDid("apply", m)
    /\ M[m].target = ToFloat(1000) /\ M[m].speed = 0
    /\ M[m].err = ToFloat(1000) /\ M[m].errPrev = ToFloat(1000)
    /\ M[m].integ = ToFloat(300) /\ M[m].deriv = ToFloat(4)
    /\ M[m].u = ToFloat(1304)
    /\ M[m].duty = 1023 /\ M[m].dir = 1

\* C16: a PID step keeps the integral iff the previous step left
\* duty = DUTY_MAX with u >= DUTY_MAX and the error is positive, or left
\* duty = DUTY_MAX with u <= -DUTY_MAX and the error is negative; otherwise
\* the integral becomes integral + Ki * err clamped to [-I_MAX, I_MAX].
\* duty and u are the ones in the struct before the step.
C16_IntegrationRule ==
  [][ LoopStepFrom("pid") =>
        LET mo == M[pc[2]]
            err == mo.target - mo.speed
            full == mo.duty = DUTY_MAX
            skip == \/ full /\ mo.u >= ToFloat(DUTY_MAX) /\ err > 0
                    \/ full /\ mo.u <= -ToFloat(DUTY_MAX) /\ err < 0
            raw == mo.integ + (Ki * err) \div Q
            clamped == IF raw > I_MAX THEN I_MAX
                       ELSE IF raw < -I_MAX THEN -I_MAX ELSE raw
        IN  M'[pc[2]].integ = IF skip THEN mo.integ ELSE clamped
    ]_vars

\* C16 witness: after a step that saturated, one channel has skipped the
\* integration (error positive, integral still 0) while the other, whose
\* previous duty was full with u below DUTY_MAX, has integrated
C16_Witness ==
  /\ JustDid("pid", 2)
  /\ \E m \in Motors :
       /\ M[m].err > 0 /\ M[m].integ = 0 /\ M[m].u >= ToFloat(DUTY_MAX)
  /\ \E m \in Motors :
       /\ M[m].err > 0 /\ M[m].integ = I_MAX /\ M[m].deriv = 0
       /\ M[m].errPrev = ToFloat(1000)

\* channel m has been actuated in this pass of loop(): its duty, direction
\* and pins are the ones applyMotor derived from its present u
Actuated(m) == \E i \in 1..Len(tickLog) : tickLog[i] = <<"apply", m>>

\* C17: after actuation duty = 0 exactly when |u| < 1, and among actuated
\* efforts with |u| >= 1 a larger magnitude never gets a smaller duty.
C17_DeadZoneAndMonotone ==
  /\ \A m \in Motors :
       Actuated(m) => (M[m].duty = 0 <=> Abs(M[m].u) < ToFloat(1))
  /\ \A m1, m2 \in Motors :
       ( /\ Actuated(m1) /\ Actuated(m2)
         /\ ToFloat(1) <= Abs(M[m1].u)
         /\ Abs(M[m1].u) <= Abs(M[m2].u) )
       => M[m1].duty <= M[m2].duty

\* C17 witness: one channel in the dead zone with a non-zero effort, the
\* other exactly on its edge and driven
C17_Witness ==
  \E m1, m2 \in Motors :
    /\ Actuated(m1) /\ Actuated(m2)
    /\ M[m1].u # 0 /\ Abs(M[m1].u) < ToFloat(1) /\ M[m1].duty = 0
    /\ Abs(M[m2].u) = ToFloat(1) /\ M[m2].duty > 0

\* C18: after actuation with |u| >= 1 the duty is
\* MIN_DUTY_START + min(|u|, DUTY_MAX) * (DUTY_MAX - MIN_DUTY_START) / DUTY_MAX
\* rounded to the nearest integer (halves up), hence at least MIN_DUTY_START,
\* and DUTY_MAX when |u| >= DUTY_MAX; in every state the duty is 0 or lies
\* in [MIN_DUTY_START, DUTY_MAX].
C18_DutyFormula ==
  \A m \in Motors :
    /\ M[m].duty = 0 \/ (MIN_DUTY_START <= M[m].duty /\ M[m].duty <= DUTY_MAX)
    /\ (Actuated(m) /\ Abs(M[m].u) >= ToFloat(1)) =>
         LET top == ToFloat(DUTY_MAX)
             mag == IF Abs(M[m].u) < top THEN Abs(M[m].u) ELSE top
             den == DUTY_MAX * Q
             num == MIN_DUTY_START * den + mag * (DUTY_MAX - MIN_DUTY_START)
         IN  /\ 2 * M[m].duty * den <= 2 * num + den
             /\ 2 * num + den < 2 * (M[m].duty + 1) * den
             /\ M[m].duty >= MIN_DUTY_START
             /\ Abs(M[m].u) >= top => M[m].duty = DUTY_MAX

\* C18 witness: u = 1 mapped to 181 (180.82 rounded up) on one channel, an
\* effort beyond DUTY_MAX mapped to DUTY_MAX on the other
C18_Witness ==
  \E m1, m2 \in Motors :
    /\ Actuated(m1) /\ Actuated(m2)
    /\ M[m1].u = ToFloat(1) /\ M[m1].duty = MIN_DUTY_START + 1
    /\ Abs(M[m2].u) > ToFloat(DUTY_MAX) /\ M[m2].duty = DUTY_MAX

\* C19: direction is always +1 or -1 and after actuation it is +1 iff
\* u >= 0; the pins show forward (inA high, inB low) iff duty > 0 and
\* direction = +1, reverse (inA low, inB high) iff duty > 0 and
\* direction = -1, coast (both low) iff duty = 0; never both high.
C19_DirectionAndPins ==
  \A m \in Motors :
    /\ M[m].dir \in {1, -1}
    /\ Actuated(m) => M[m].dir = IF M[m].u >= 0 THEN 1 ELSE -1
    /\ (out[m].inA /\ ~out[m].inB) <=> (M[m].duty > 0 /\ M[m].dir = 1)
    /\ (~out[m].inA /\ out[m].inB) <=> (M[m].duty > 0 /\ M[m].dir = -1)
    /\ (~out[m].inA /\ ~out[m].inB) <=> M[m].duty = 0
    /\ ~(out[m].inA /\ out[m].inB)

\* C19 witness: one channel coasts with a negative effort (direction -1),
\* the other drives in reverse
C19_Witness ==
  \E m1, m2 \in Motors :
    /\ Actuated(m1) /\ Actuated(m2)
    /\ M[m1].u < 0 /\ M[m1].dir = -1 /\ M[m1].duty = 0
    /\ ~out[m1].inA /\ ~out[m1].inB
    /\ M[m2].u < 0 /\ M[m2].duty > 0
    /\ ~out[m2].inA /\ out[m2].inB

\* a Motor struct with its target blanked
SansTarget(mo) == [mo EXCEPT !.target = 0]

\* C20: target changes only in a step that serves a serial line or an HTTP
\* /cmd or /stop request (never in a tick step or a telemetry read); every
\* other Motor field changes only in a tick step of its own channel; a
\* position counter changes only when a handler of its own channel
\* services a latched edge, and then the other counter and the main loop
\* stand still.
C20_WriteOwnership ==
  [][ \A m \in Motors :
        /\ M'[m].target # M[m].target =>
             \/ /\ LoopStepFrom("serial")
                /\ io'.src = "serial" /\ io'.line # NoLine
             \/ LoopStepFrom("http") /\ io'.req.path \in {"/cmd", "/stop"}
        /\ SansTarget(M'[m]) # SansTarget(M[m]) =>
             /\ pc[1] \in {"us_ei", "pid", "apply"}
             /\ pc[2] = m
             /\ pc' # pc
        /\ encCount'[m] # encCount[m] =>
             /\ pc' = pc /\ M' = M
             /\ pend[m] # pend'[m]
             /\ \A k \in Motors \ {m} :
                  encCount'[k] = encCount[k] /\ pend'[k] = pend[k]
    ]_vars

\* C20 witness: a command has set target 1, a tick has written the other
\* fields, and only channel 2's handlers have counted
C20_Witness ==
  /\ M[1].target # 0 /\ M[1].duty > 0
  /\ encCount[2] # 0 /\ encCount[1] = 0
  /\ M[2].lastCount = encCount[2] /\ M[2].speed # 0

\* C21: the targets change in no step of a tick (only where loop() serves
\* HTTP or serial input); the two targets are at all times the left and
\* right setpoint of one and the same command; and when the second PID
\* step of a tick has run, both PID steps of that tick have consumed the
\* setpoints of that one command.
C21_CommandAtomicity ==
  [][ /\ (pc[1] \notin {"http", "serial"} \/ pc' = pc) =>
           \A m \in Motors : M'[m].target = M[m].target
      /\ \A m \in Motors : M'[m].target = ToFloat(past'.cmd[m])
      /\ (LoopStepFrom("pid") /\ pc[2] = 2) =>
           /\ Consumed(M[1]) = ToFloat(past.cmd[1])
           /\ Consumed(M'[2]) = ToFloat(past.cmd[2])
    ]_vars

\* C21 witness: both PID steps of a tick have consumed the two setpoints of
\* the serial command 740 -740
C21_Witness ==
  /\ JustDid("pid", 2)
  /\ past.cmd = <<740, -740>>
  /\ Consumed(M[1]) = ToFloat(740)
  /\ Consumed(M[2]) = -ToFloat(740)

\* C22: every PID step of a channel consumes the setpoint of the latest
\* command acknowledged before it (the initial zero when there was none),
\* also when that command replaced one that no PID step had consumed.
C22_LatestTargetUsed ==
  [][ \A m \in Motors :
        (LoopStepFrom("pid") /\ pc[2] = m) =>
          Consumed(M'[m]) = ToFloat(past.cmd[m])
    ]_vars

\* C22 witness: two commands were acknowledged in the pass of loop() that
\* runs this tick and the PID steps of both channels have consumed the
\* second one, 740 -740
C22_Witness ==
  /\ JustDid("pid", 2)
  /\ past.fresh = 2
  /\ past.cmd = <<740, -740>>
  /\ Consumed(M[1]) = ToFloat(740)
  /\ Consumed(M[2]) = ToFloat(-740)

\* everything the program holds for channel m: its Motor struct, its driver
\* pins, its counter and the state of its encoder
ChannelView(m) ==
  <<M[m], out[m], encCount[m], encA[m], encB[m], pend[m], shaft[m]>>

OtherMotor(m) == 3 - m

TickInHorizon ==
  (uptime - sinceTick) + 2 * SAMPLE_MS - 1 <= MaxUptime

BetweenTicks == pc[1] \in {"http", "serial", "sched"}

TickStarts == pc = <<"us_ni", 1>>

\* C24: as long as the processor keeps executing, whatever was served since
\* the last tick (a stop, a rejected command, nothing) and whatever edges
\* arrived, the next tick is started; and a stop changes neither the
\* reference timestamp nor the position of the main loop's program.
C24_TickRecurs ==
  /\ (BetweenTicks /\ TickInHorizon) ~> TickStarts
  /\ [][ (pc' # pc /\
           io'.reply.text \in {"OK STOP", "STOP command received"}) =>
           /\ lastMs' = lastMs
           /\ pc' = After(pc)
       ]_vars

\* C24 witness: a tick is started in a pass of loop() that has acknowledged
\* a stop, after an earlier pass that ran no tick and with encoder edges
\* counted
C24_Witness ==
  /\ TickStarts
  /\ uptime >= 2 * SAMPLE_MS - 2
  /\ past.fresh >= 1
  /\ past.cmd = <<0, 0>>
  /\ edges > 1

\* a /cmd request without its l or without its r argument
LacksArg(req) == req.path = "/cmd" /\ (~req.hasL \/ ~req.hasR)

\* C25: the step that serves a /cmd request lacking l or lacking r answers
\* 400 with the missing-parameter message and changes no field of either
\* Motor struct, nor the driver pins, the counters or the reference
\* timestamp; in particular the argument that is present is not applied.
C25_MissingArgRejected ==
  [][ (LoopStepFrom("http") /\ LacksArg(io'.req)) =>
        /\ io'.status = 400
        /\ io'.reply = Reply("Error: missing l or r parameter", <<>>)
        /\ M' = M
        /\ UNCHANGED <<out, encCount, lastMs>>
    ]_vars

\* C25 witness: /cmd with only l = 740 has been answered 400 while the
\* targets are those of the earlier command 2500 0
C25_Witness ==
  /\ pc = <<"serial", 0>>
  /\ LacksArg(io.req)
  /\ io.req.hasL
  /\ io.status = 400
  /\ M[1].target = ToFloat(2500)
  /\ M[2].target = 0

\* C25 witness, the other argument: /cmd with only r = 740 has been
\* answered 400 after the command 2500 0
C25_WitnessRightOnly ==
  /\ pc = <<"serial", 0>>
  /\ LacksArg(io.req)
  /\ io.req.hasR
  /\ io.status = 400
  /\ M[1].target = ToFloat(2500)
  /\ M[2].target = 0

\* the controller state of a channel at rest
AtRest(mo) ==
  mo.integ = 0 /\ mo.errPrev = 0 /\ mo.u = 0 /\ mo.duty = 0

\* C26: a PID step of a channel at rest with target 0 and measured speed 0
\* yields error 0 and leaves the channel at rest (integral, previous error
\* and u stay 0); the actuation of a channel at rest yields duty 0 with both
\* direction pins low and PWM 0, and leaves the channel at rest.
C26_RestIsFixedPoint ==
  [][ \A m \in Motors :
        /\ (LoopStepFrom("pid") /\ pc[2] = m /\ AtRest(M[m])
              /\ M[m].target = 0 /\ M[m].speed = 0) =>
             (M'[m].err = 0 /\ AtRest(M'[m]))
        /\ (LoopStepFrom("apply") /\ pc[2] = m /\ AtRest(M[m])) =>
             /\ AtRest(M'[m])
             /\ out'[m] = [inA |-> FALSE, inB |-> FALSE, pwm |-> 0]
    ]_vars

\* C26 witness: the second tick since startup has run and both channels,
\* never commanded and never turned, are still exactly as setup() left them
C26_Witness ==
  /\ JustDid("apply", 2)
  /\ uptime >= 2 * SAMPLE_MS - 2
  /\ sinceTick = 0
  /\ \A m \in Motors :
       /\ M[m] = Motor0
       /\ out[m] = [inA |-> FALSE, inB |-> FALSE, pwm |-> 0]

\* C27: except between a channel's PID step and its actuation, hence in
\* every state between ticks and whenever a PID step evaluates its
\* saturation test, the channel's duty, direction and PWM output are the
\* actuation mapping of its stored u; the saturation tests are then decided
\* by u alone (high iff u >= DUTY_MAX, low iff u <= -DUTY_MAX), never hold
\* together, and duty >= PWM_MAX holds exactly when duty = DUTY_MAX.
C27_ActuationNeverStale ==
  \A m \in Motors :
    (pc # <<"apply", m>>) =>
      /\ M[m].duty = DutyOf(M[m].u)
      /\ M[m].dir = (IF M[m].u >= 0 THEN 1 ELSE -1)
      /\ out[m].pwm = M[m].duty
      /\ SaturatingHigh(M[m]) <=> (M[m].u >= ToFloat(DUTY_MAX))
      /\ SaturatingLow(M[m]) <=> (M[m].u <= -ToFloat(DUTY_MAX))
      /\ ~(SaturatingHigh(M[m]) /\ SaturatingLow(M[m]))
      /\ (M[m].duty >= PWM_MAX) <=> (M[m].duty = DUTY_MAX)

\* C27 witness: between ticks, channel 1 is saturated high at full duty and
\* channel 2 is saturated low, driven in reverse
C27_Witness ==
  /\ BetweenTicks
  /\ SaturatingHigh(M[1])
  /\ SaturatingLow(M[2])
  /\ M[2].dir = -1
  /\ M[1].duty = DUTY_MAX

\* C28: the speed update of a tick stores as snapshot the counter value it
\* read, which is still the counter's value (no handler ran since the read),
\* and uses as difference exactly what the counter gained since the previous
\* snapshot; hence in every state the differences used so far sum to the
\* snapshot minus the initial snapshot 0, and whenever no edge awaits its
\* handler every quadrature step the shaft made is counted once: either in
\* that sum or in the part of the counter the next tick will sample.
C28_NoCountLostOrDoubled ==
  /\ [] (\A m \in Motors :
           /\ past.sum[m] = M[m].lastCount - 0
           /\ (~pend[m].A /\ ~pend[m].B) =>
                past.sum[m] + (encCount[m] - M[m].lastCount) = -shaft[m])
  /\ [][ \A m \in Motors :
           (LoopStepFrom("us_ei") /\ pc[2] = m) =>
             /\ M'[m].lastCount = nowCnt
             /\ nowCnt = encCount[m]
             /\ past'.sum[m] - past.sum[m] = encCount[m] - M[m].lastCount
       ]_vars

\* C28 witness: a tick has sampled one edge of channel 1 and, while that
\* tick is still running past its critical section, a second edge has been
\* counted, which is left for the next tick's difference
C28_Witness ==
  /\ pc[1] \in {"pid", "apply"}
  /\ past.sum[1] # 0
  /\ M[1].speed # 0
  /\ encCount[1] # M[1].lastCount
  /\ ~pend[1].A /\ ~pend[1].B

\* a is below b as a 32-bit unsigned number
U32Less(a, b) == a[1] < b[1] \/ (a[1] = b[1] /\ a[2] < b[2])

\* C29: at every pacing test, also when millis() has wrapped past 0 and the
\* reference has not, the 32-bit difference now - lastMs is the number of
\* milliseconds that really passed since the previous tick, and the tick
\* runs exactly when that number is at least SAMPLE_MS: no early tick at
\* the wrap and no tick withheld after it.
C29_PacingAcrossWrap ==
  [][ LoopStepFrom("sched") =>
        LET ticked == pc' = <<"us_ni", 1>>
            elapsed == sinceTick + (uptime' - uptime)
        IN  /\ U32Sub(clock', lastMs) = U32(elapsed)
            /\ TickDue(clock', lastMs) <=> elapsed >= SAMPLE_MS
            /\ ticked <=> elapsed >= SAMPLE_MS
            /\ (U32Less(clock', lastMs) /\ elapsed < SAMPLE_MS) => ~ticked
            /\ (U32Less(clock', lastMs) /\ elapsed >= SAMPLE_MS) => ticked
    ]_vars

\* C29 witness: millis() wrapped between two ticks; the poll 49 ms after the
\* last tick read a value below the reference and declined, and the poll
\* after it has started the tick, 98 or 99 ms after the last one, and set
\* the reference to the wrapped value
C29_Witness ==
  /\ pc = <<"us_ni", 1>>
  /\ uptime >= 2 * SAMPLE_MS - 2
  /\ sinceTick = 0
  /\ clock[1] = 0
  /\ lastMs = clock

\* C30: the two channels run the same code from the same initial state at
\* the same tick times, so they serve as the two runs.  As long as every
\* tick so far gave channel 2 the negated target and the negated count
\* difference (speed) of channel 1, then outside the PID and actuation
\* stages of a tick channel 2's error, integral and u are the negation of
\* channel 1's, the duties are equal, and the directions are opposite
\* whenever u is not 0.
C30_ForwardReverseSymmetry ==
  (past.mirror /\ pc[1] \notin {"pid", "apply"}) =>
    /\ M[2].err = -M[1].err
    /\ M[2].integ = -M[1].integ
    /\ M[2].u = -M[1].u
    /\ M[2].duty = M[1].duty
    /\ (M[1].u # 0) => M[2].dir = -M[1].dir

\* C30 witness: two ticks have run with targets 740 and -740 and with
\* opposite nonzero count differences in the second, which found channel 1
\* saturated high and channel 2 saturated low
C30_Witness ==
  /\ pc = LoopStart
  /\ JustDid("apply", 2)
  /\ uptime >= 2 * SAMPLE_MS - 2
  /\ past.mirror
  /\ M[1].target = ToFloat(740)
  /\ M[1].speed # 0
  /\ M[1].integ # 0
  /\ M[1].u # 0

====
